---- MODULE Spec2Model ----
(***************************************************************************)
(* A model of the Vulkan bootstrap of vulkano-udemy: VulkanRenderer::init  *)
(* (src/src/vulkan_renderer.rs), QueueFamilyIndices (src/src/utilities.rs) *)
(* and the top level that runs it (src/src/main.rs).                       *)
(*                                                                         *)
(* Option<T> is a sequence of length at most one: None is <<>>, Some(x) is *)
(* <<x>>.  A Vec is a sequence.  A u32 is a pair of 16-bit limbs, so that  *)
(* the full 32-bit range, the overflow at 2^32 - 1 included, is exact.     *)
(***************************************************************************)
EXTENDS Integers, Sequences, FiniteSets, TLC

VARIABLES
    debug_assertions,      \* cfg(debug_assertions): TRUE in a debug build
    pc,                    \* the position of the program
    ran,                   \* the steps of init run so far, in order
    debug_callback,        \* Option: the DebugCallback of the renderer
    result,                \* the Result init returned, None while it runs
    exit_code,             \* Option: the exit code of the process
    stderr,                \* what main printed with eprintln!
    physical_device_list,  \* PhysicalDevice::enumerate(&instance)
    physycal_device,       \* Option: the index of the device init selected
    queue_family_indices,  \* the QueueFamilyIndices last produced
    families,              \* the Vec into_vec returned
    surface_capabilities,  \* surface.capabilities(physical)
    inner_size,            \* surface.window().inner_size()
    surface_format,        \* Option: the (Format, ColorSpace) chosen
    presentation_mode,     \* Option: the PresentMode chosen
    image_count,           \* Option: the image count asked of Swapchain::new
    alpha,                 \* Option: the CompositeAlpha asked of Swapchain::new
    sharing_mode,          \* Option: the SharingMode asked of Swapchain::new
    dimensions,            \* Option: the extent asked of Swapchain::new
    control_flow,          \* the ControlFlow the closure of events_loop.run writes to
    stdout                 \* what the closure printed with println!

loopVars == << control_flow, stdout >>
progVars == << debug_assertions, ran, debug_callback, result, exit_code, stderr, loopVars >>
deviceVars == << physical_device_list, physycal_device, queue_family_indices, families >>
swapVars == << surface_capabilities, inner_size, surface_format, presentation_mode, image_count,
               alpha, sharing_mode, dimensions >>
vars == << pc, progVars, deviceVars, swapVars >>

\* ------------------------------------------------------------------ bounds

MaxFormats == 3      \* the longest supported_formats list
MaxFamilies == 3     \* the most queue families of one device
MaxDevices == 2      \* the longest physical-device list
MaxCount == 3        \* image counts 0..MaxCount, and the same distance below 2^32 - 1
MaxExtent == 2       \* extents and window sizes 0..MaxExtent

\* ------------------------------------------------------------------ Option, Vec

None == << >>
Some(x) == << x >>
is_some(o) == o # None
is_none(o) == o = None
unwrap(o) == o[1]

\* The sequences over S of length at most n.
SeqUpTo(S, n) == UNION { [1..k -> S] : k \in 0..n }

\* ------------------------------------------------------------------ u32

Limb == 2^16
u32(n) == [hi |-> n \div Limb, lo |-> n % Limb]
u32_MAX == [hi |-> Limb - 1, lo |-> Limb - 1]
u32_lt(a, b) == IF a.hi = b.hi THEN a.lo < b.lo ELSE a.hi < b.hi
u32_le(a, b) == a = b \/ u32_lt(a, b)
u32_min(a, b) == IF u32_le(a, b) THEN a ELSE b
\* a + 1 as the machine computes it, modulo 2^32
wrapping_inc(a) ==
    IF a.lo + 1 < Limb THEN [hi |-> a.hi, lo |-> a.lo + 1]
    ELSE [hi |-> (a.hi + 1) % Limb, lo |-> 0]
\* u32::MAX - k, for k < 2^16
u32_below_max(k) == [hi |-> Limb - 1, lo |-> Limb - 1 - k]

\* ------------------------------------------------------------------ surface formats

Formats == { "R8G8B8A8Unorm", "B8G8R8A8Unorm", "R16G16B16A16Sfloat" }
ColorSpaces == { "SrgbNonLinear", "ExtendedSrgbLinear" }
SurfaceFormats == Formats \X ColorSpaces

is_best_format_mutant(f) ==
    f[1] \in { "R8G8B8A8Unorm", "B8G8R8A8Unorm" }

\* the closure of the find of choose_best_surface_format
is_best_format(f) ==
    /\ f[1] \in { "R8G8B8A8Unorm", "B8G8R8A8Unorm" }
    /\ f[2] = "SrgbNonLinear"

\* Iterator::find over avalilable_formats, from position i on
RECURSIVE find_best_format(_, _)
find_best_format(avalilable_formats, i) ==
    IF i > Len(avalilable_formats) THEN None
    ELSE IF is_best_format(avalilable_formats[i]) THEN Some(avalilable_formats[i])
    ELSE find_best_format(avalilable_formats, i + 1)

\* The outcome of a call: a value returned, or a panic.
Return(v) == [kind |-> "return", value |-> v]
Panic(msg) == [kind |-> "panic", value |-> msg]

choose_best_surface_format_mutant(avalilable_formats) ==
    LET best_format == find_best_format(avalilable_formats, 1)
    IN  IF is_some(best_format) THEN Return(unwrap(best_format))
        ELSE Return(<< "B8G8R8A8Unorm", "SrgbNonLinear" >>)

choose_best_surface_format(avalilable_formats) ==
    LET best_format == find_best_format(avalilable_formats, 1)
    IN  IF is_some(best_format) THEN Return(unwrap(best_format))
        ELSE IF Len(avalilable_formats) = 0
             THEN Panic("index out of bounds: the len is 0 but the index is 0")
             ELSE Return(avalilable_formats[1])

\* ------------------------------------------------------------------ present modes

PresentModes == { "Immediate", "Mailbox", "Fifo", "Relaxed" }
\* SupportedPresentModes: one flag per mode
SupportedPresentModes ==
    [immediate : BOOLEAN, mailbox : BOOLEAN, fifo : BOOLEAN, relaxed : BOOLEAN]
\* whether the surface reports the mode as supported
supports(supported_modes, mode) ==
    CASE mode = "Immediate" -> supported_modes.immediate
      [] mode = "Mailbox" -> supported_modes.mailbox
      [] mode = "Fifo" -> supported_modes.fifo
      [] mode = "Relaxed" -> supported_modes.relaxed

choose_best_presentation_mode_mutant(supported_modes) ==
    IF supported_modes.fifo THEN "Fifo" ELSE "Mailbox"

choose_best_presentation_mode(supported_modes) ==
    IF supported_modes.mailbox THEN "Mailbox" ELSE "Fifo"

\* ------------------------------------------------------------------ Result, EngineError

Ok(v) == [kind |-> "Ok", value |-> v]
Err(e) == [kind |-> "Err", value |-> e]
is_ok(r) == r.kind = "Ok"
is_err(r) == r.kind = "Err"

\* EngineError: the variant and what it wraps
EngineError(variant, inner) == [variant |-> variant, inner |-> inner]
VulkanValidationError(msg) == EngineError("VulkanValidationError", msg)

\* ------------------------------------------------------------------ queue families

\* What a device reports of one queue family: supports_graphics(), and the
\* answer of surface.is_supported(q), which is a Result<bool, _>.
SurfaceSupport == { "Ok(true)", "Ok(false)", "Err" }
QueueFamilyKinds == [supports_graphics : BOOLEAN, is_supported : SurfaceSupport]

DeviceExtensionNames == { "khr_swapchain", "khr_maintenance1" }

\* A physical device: its queue families in enumeration order (the family at
\* position i has id i - 1) and the device extensions it supports.
PhysicalDevices(n) ==
    [queue_families : SeqUpTo(QueueFamilyKinds, n),
     supported_extensions : SUBSET DeviceExtensionNames]

\* A QueueFamily handle: the id of the family within its device.
QueueFamily(id) == [id |-> id]

QueueFamilyIndices_new == [graphics_family |-> None, presentation_family |-> None]

is_valid(self) ==
    is_some(self.graphics_family) /\ is_some(self.presentation_family)

\* result.iter().find(|f| f.id() == id)
RECURSIVE find_family_id(_, _, _)
find_family_id(vec, id, i) ==
    IF i > Len(vec) THEN None
    ELSE IF vec[i].id = id THEN Some(vec[i])
    ELSE find_family_id(vec, id, i + 1)

into_vec_mutant(self) ==
    IF ~is_valid(self) THEN << >>
    ELSE << unwrap(self.graphics_family), unwrap(self.presentation_family) >>

into_vec(self) ==
    IF ~is_valid(self) THEN << >>
    ELSE LET result_vec == << unwrap(self.graphics_family) >>
         IN  IF is_none(find_family_id(result_vec, unwrap(self.presentation_family).id, 1))
             THEN Append(result_vec, unwrap(self.presentation_family))
             ELSE result_vec

\* surface.is_supported(q).unwrap_or(true)
unwrap_or_false_mutant(r) == IF r = "Ok(false)" THEN FALSE ELSE TRUE

\* surface.is_supported(q).unwrap_or(false)
unwrap_or_false(r) == IF r = "Ok(true)" THEN TRUE ELSE FALSE

\* physical_device.queue_families().find(|&q| q.supports_graphics())
RECURSIVE find_graphics(_, _)
find_graphics(queue_families, i) ==
    IF i > Len(queue_families) THEN None
    ELSE IF queue_families[i].supports_graphics THEN Some(QueueFamily(i - 1))
    ELSE find_graphics(queue_families, i + 1)

\* physical_device.queue_families().find(|&q| surface.is_supported(q).unwrap_or(false))
RECURSIVE find_presentation(_, _)
find_presentation(queue_families, i) ==
    IF i > Len(queue_families) THEN None
    ELSE IF unwrap_or_false(queue_families[i].is_supported) THEN Some(QueueFamily(i - 1))
    ELSE find_presentation(queue_families, i + 1)

get_queue_families_mutant(physical_device) ==
    LET graphics == find_graphics(physical_device.queue_families, 1)
    IN  [graphics_family |-> graphics, presentation_family |-> graphics]

get_queue_families(physical_device) ==
    LET graphics == find_graphics(physical_device.queue_families, 1)
        presentation == find_presentation(physical_device.queue_families, 1)
        with_graphics ==
            IF is_some(graphics)
            THEN [QueueFamilyIndices_new EXCEPT !.graphics_family = graphics]
            ELSE QueueFamilyIndices_new
    IN  IF is_some(presentation)
        THEN [with_graphics EXCEPT !.presentation_family = presentation]
        ELSE with_graphics

\* ------------------------------------------------------------------ device selection

get_required_device_extensions == { "khr_swapchain" }

check_device_extension_support(device, extensions) ==
    (device.supported_extensions \cap extensions) = extensions

check_device_suitable_mutant(physical_device) ==
    is_valid(get_queue_families(physical_device))

check_device_suitable(physical_device) ==
    /\ is_valid(get_queue_families(physical_device))
    /\ check_device_extension_support(physical_device, get_required_device_extensions)

\* the while-let loop of get_physical_device, from position i on; a device is
\* named by its index in the enumeration
RECURSIVE get_physical_device_from(_, _)
get_physical_device_from(list, i) ==
    IF i > Len(list)
    THEN Err(VulkanValidationError("No valid physical device available"))
    ELSE IF check_device_suitable(list[i]) THEN Ok(i - 1)
    ELSE get_physical_device_from(list, i + 1)

get_physical_device(list) == get_physical_device_from(list, 1)

\* ------------------------------------------------------------------ swap-chain negotiation

CompositeAlphas == << "Opaque", "PreMultiplied", "PostMultiplied", "Inherit" >>

\* supported_composite_alpha.iter().next(): the first supported one, Opaque first
RECURSIVE first_composite_alpha(_, _)
first_composite_alpha(supported_composite_alpha, i) ==
    IF i > Len(CompositeAlphas) THEN None
    ELSE IF CompositeAlphas[i] \in supported_composite_alpha THEN Some(CompositeAlphas[i])
    ELSE first_composite_alpha(supported_composite_alpha, i + 1)

\* min_image_count + 1 on a u32: overflow panics where overflow checks are on
\* (they follow debug_assertions) and wraps where they are off
add_one(a, overflow_checks) ==
    IF a = u32_MAX /\ overflow_checks THEN Panic("attempt to add with overflow")
    ELSE Return(wrapping_inc(a))

\* image_count of create_swapchain
choose_image_count(min_image_count, max_image_count, overflow_checks) ==
    LET sum == add_one(min_image_count, overflow_checks)
    IN  IF sum.kind = "panic" THEN sum
        ELSE IF is_some(max_image_count)
             THEN Return(u32_min(sum.value, unwrap(max_image_count)))
             ELSE sum

nat_min(a, b) == IF a <= b THEN a ELSE b
nat_max(a, b) == IF a <= b THEN b ELSE a

clamp_dimension_mutant(min_image_extent, max_image_extent, window_size) ==
    nat_min(max_image_extent, window_size)

\* one dimension of the extent of create_swapchain
clamp_dimension(min_image_extent, max_image_extent, window_size) ==
    nat_max(min_image_extent, nat_min(max_image_extent, window_size))

\* the queues Device::new opens: one for each (family, priority) entry, numbered
\* within its family
device_queues(queue_families) ==
    [i \in 1..Len(queue_families) |->
        [family |-> queue_families[i].id,
         id_within_family |->
            Cardinality({ j \in 1..(i - 1) : queue_families[j].id = queue_families[i].id })]]

\* sharing_mode of create_swapchain
choose_sharing_mode(queues) ==
    LET queue_list == [i \in 1..Len(queues) |-> queues[i].id_within_family]
    IN  IF Len(queue_list) = 1 THEN [mode |-> "Exclusive", queues |-> << >>]
        ELSE [mode |-> "Concurrent", queues |-> queue_list]

\* A surface-capability record with nothing remarkable in it.
DefaultCapabilities ==
    [min_image_count |-> u32(2), max_image_count |-> None,
     min_image_extent |-> << 1, 1 >>, max_image_extent |-> << MaxExtent, MaxExtent >>,
     supported_composite_alpha |-> { "Opaque" },
     supported_formats |-> << << "B8G8R8A8Unorm", "SrgbNonLinear" >> >>,
     present_modes |-> [immediate |-> FALSE, mailbox |-> FALSE, fifo |-> TRUE, relaxed |-> FALSE]]

\* ------------------------------------------------------------------ idle values

ProgIdle ==
    /\ debug_assertions = FALSE
    /\ ran = << >>
    /\ debug_callback = None
    /\ result = None
    /\ exit_code = None
    /\ stderr = << >>
    /\ control_flow = "Poll"
    /\ stdout = << >>

DeviceIdle ==
    /\ physical_device_list = << >>
    /\ physycal_device = None
    /\ queue_family_indices = QueueFamilyIndices_new
    /\ families = << >>

SwapIdle ==
    /\ inner_size = << 1, 1 >>
    /\ surface_format = None
    /\ presentation_mode = None
    /\ image_count = None
    /\ alpha = None
    /\ sharing_mode = None
    /\ dimensions = None

\* ------------------------------------------------------------------ SpecSurface
\* choose_best_surface_format and choose_best_presentation_mode on every
\* supported_formats list and every present-mode record within the bounds.

InitSurface ==
    /\ pc = "choose"
    /\ ProgIdle
    /\ DeviceIdle
    /\ SwapIdle
    /\ \E formats \in SeqUpTo(SurfaceFormats, MaxFormats), modes \in SupportedPresentModes :
          surface_capabilities =
              [DefaultCapabilities EXCEPT !.supported_formats = formats,
                                          !.present_modes = modes]

ChooseBestSurfaceFormat ==
    /\ pc = "choose"
    /\ surface_format = None
    /\ LET chosen == choose_best_surface_format(surface_capabilities.supported_formats)
       IN  IF chosen.kind = "panic"
           THEN /\ pc' = "panic"
                /\ exit_code' = Some(101)
                /\ surface_format' = None
           ELSE /\ pc' = pc
                /\ exit_code' = exit_code
                /\ surface_format' = Some(chosen.value)
    /\ UNCHANGED << loopVars, debug_assertions, ran, debug_callback, result, stderr, deviceVars,
                    surface_capabilities, inner_size,
                    presentation_mode, image_count, alpha, sharing_mode, dimensions >>

ChooseBestPresentationMode ==
    /\ pc = "choose"
    /\ presentation_mode = None
    /\ presentation_mode' = Some(choose_best_presentation_mode(surface_capabilities.present_modes))
    /\ UNCHANGED << pc, progVars, deviceVars, surface_capabilities, inner_size, surface_format,
                    image_count, alpha, sharing_mode, dimensions >>

NextSurface == ChooseBestSurfaceFormat \/ ChooseBestPresentationMode

SpecSurface == InitSurface /\ [][NextSurface]_vars

\* ------------------------------------------------------------------ SpecImageCount
\* The image count of create_swapchain on image counts at both ends of the u32
\* range, in both builds.

ImageCounts == { u32(n) : n \in 0..MaxCount } \cup { u32_below_max(k) : k \in 0..MaxCount }

InitImageCount ==
    /\ pc = "count"
    /\ debug_assertions \in BOOLEAN
    /\ ran = << >>
    /\ debug_callback = None
    /\ result = None
    /\ exit_code = None
    /\ stderr = << >>
    /\ control_flow = "Poll"
    /\ stdout = << >>
    /\ DeviceIdle
    /\ SwapIdle
    /\ \E min \in ImageCounts, max \in { None } \cup { Some(c) : c \in ImageCounts } :
          surface_capabilities =
              [DefaultCapabilities EXCEPT !.min_image_count = min, !.max_image_count = max]

ChooseImageCount ==
    /\ pc = "count"
    /\ LET chosen == choose_image_count(surface_capabilities.min_image_count,
                                        surface_capabilities.max_image_count,
                                        debug_assertions)
       IN  IF chosen.kind = "panic"
           THEN /\ pc' = "panic"
                /\ exit_code' = Some(101)
                /\ image_count' = None
           ELSE /\ pc' = "counted"
                /\ exit_code' = exit_code
                /\ image_count' = Some(chosen.value)
    /\ UNCHANGED << loopVars, debug_assertions, ran, debug_callback, result, stderr, deviceVars,
                    surface_capabilities, inner_size,
                    surface_format, presentation_mode, alpha, sharing_mode, dimensions >>

NextImageCount == ChooseImageCount

SpecImageCount == InitImageCount /\ [][NextImageCount]_vars

\* ------------------------------------------------------------------ claims on SpecSurface

\* the entries the claims call 8-bit RGBA or BGRA non-linear sRGB
Preferred8Bit ==
    { << "R8G8B8A8Unorm", "SrgbNonLinear" >>, << "B8G8R8A8Unorm", "SrgbNonLinear" >> }
PreferredAt(formats) == { i \in 1..Len(formats) : formats[i] \in Preferred8Bit }
FormatCallEnded == pc = "panic" \/ is_some(surface_format)
\* the chooser returned the entry the claim names: the first preferred entry,
\* or the first element when there is none
ReturnedAsClaimed(formats) ==
    /\ is_some(surface_format)
    /\ IF PreferredAt(formats) # {}
       THEN \E i \in PreferredAt(formats) :
               /\ \A j \in PreferredAt(formats) : i <= j
               /\ unwrap(surface_format) = formats[i]
       ELSE /\ Len(formats) > 0
            /\ unwrap(surface_format) = formats[1]

\* C1 as stated: on every list, choose_best_surface_format returns the first
\* 8-bit RGBA/BGRA SrgbNonLinear entry if there is one, and the first element
\* of the list otherwise.
C1_EveryList ==
    FormatCallEnded => ReturnedAsClaimed(surface_capabilities.supported_formats)

\* C1 amended: on every non-empty list, choose_best_surface_format returns the
\* first 8-bit RGBA/BGRA SrgbNonLinear entry if there is one, and the first
\* element otherwise; on the empty list it returns nothing and panics.
C1_NonEmptyList ==
    FormatCallEnded =>
        IF Len(surface_capabilities.supported_formats) > 0
        THEN ReturnedAsClaimed(surface_capabilities.supported_formats)
        ELSE pc = "panic" /\ is_none(surface_format)

C1_Witness ==
    /\ Len(surface_capabilities.supported_formats) >= 2
    /\ 1 \notin PreferredAt(surface_capabilities.supported_formats)
    /\ PreferredAt(surface_capabilities.supported_formats) # {}
    /\ is_some(surface_format)
    /\ unwrap(surface_format) \in Preferred8Bit

FormatIsSupported ==
    is_some(surface_format) =>
        \E i \in 1..Len(surface_capabilities.supported_formats) :
            surface_capabilities.supported_formats[i] = unwrap(surface_format)

\* C3 as stated: on every surface-capability record the chosen format is an
\* element of supported_formats and the chosen present mode is one the surface
\* reports as supported.
C3_EveryRecord ==
    /\ FormatIsSupported
    /\ is_some(presentation_mode) =>
           supports(surface_capabilities.present_modes, unwrap(presentation_mode))

\* C3 amended: the format choose_best_surface_format returns is an element of
\* supported_formats, and the mode choose_best_presentation_mode returns is one
\* the surface reports as supported whenever the surface reports mailbox or
\* FIFO; on a record that reports neither, the mode is Fifo all the same.
C3_WhenFifoReported ==
    /\ FormatIsSupported
    /\ is_some(presentation_mode) =>
           IF \/ surface_capabilities.present_modes.mailbox
              \/ surface_capabilities.present_modes.fifo
           THEN supports(surface_capabilities.present_modes, unwrap(presentation_mode))
           ELSE unwrap(presentation_mode) = "Fifo"

C3_Witness ==
    /\ is_some(surface_format)
    /\ PreferredAt(surface_capabilities.supported_formats) = {}
    /\ Len(surface_capabilities.supported_formats) >= 2
    /\ presentation_mode = Some("Fifo")
    /\ surface_capabilities.present_modes.fifo
    /\ surface_capabilities.present_modes.immediate

\* C6: on every present-mode record, choose_best_presentation_mode returns
\* Mailbox when mailbox is reported and Fifo otherwise, and never another mode.
C6_MailboxElseFifo ==
    is_some(presentation_mode) =>
        /\ supports(surface_capabilities.present_modes, "Mailbox")
               => unwrap(presentation_mode) = "Mailbox"
        /\ ~supports(surface_capabilities.present_modes, "Mailbox")
               => unwrap(presentation_mode) = "Fifo"
        /\ unwrap(presentation_mode) \in { "Mailbox", "Fifo" }

C6_Witness ==
    /\ presentation_mode = Some("Mailbox")
    /\ surface_capabilities.present_modes.fifo
    /\ surface_capabilities.present_modes.immediate

\* ------------------------------------------------------------------ claims on SpecImageCount

\* a + 1 as a number, not reduced modulo 2^32: hi = 2^16 stands for 2^32
plus_one(a) ==
    IF a.lo + 1 < Limb THEN [hi |-> a.hi, lo |-> a.lo + 1]
    ELSE [hi |-> a.hi + 1, lo |-> 0]

ImageCountCallEnded == pc \in { "counted", "panic" }

\* C5: for every 32-bit min_image_count and every optional max_image_count,
\* the image count is min_image_count + 1, or max_image_count when that is
\* present and smaller; it never exceeds a present max_image_count.
C5_MinPlusOneCapped ==
    ImageCountCallEnded =>
        LET min == surface_capabilities.min_image_count
            max == surface_capabilities.max_image_count
        IN  /\ is_some(image_count)
            /\ unwrap(image_count) =
                   IF is_some(max) /\ u32_lt(unwrap(max), plus_one(min))
                   THEN unwrap(max) ELSE plus_one(min)
            /\ is_some(max) => u32_le(unwrap(image_count), unwrap(max))

\* ------------------------------------------------------------------ SpecQueue
\* QueueFamilyIndices::new, get_queue_families and into_vec on every device
\* with at most MaxFamilies queue families.

InitQueue ==
    /\ pc = "new"
    /\ ProgIdle
    /\ \E device \in PhysicalDevices(MaxFamilies) : physical_device_list = << device >>
    /\ physycal_device = Some(0)
    /\ queue_family_indices = QueueFamilyIndices_new
    /\ families = << >>
    /\ surface_capabilities = DefaultCapabilities
    /\ SwapIdle

GetQueueFamilies ==
    /\ pc = "new"
    /\ queue_family_indices' = get_queue_families(physical_device_list[1])
    /\ pc' = "resolved"
    /\ UNCHANGED << progVars, physical_device_list, physycal_device, families, swapVars >>

IntoVec ==
    /\ pc \in { "new", "resolved" }
    /\ families' = into_vec(queue_family_indices)
    /\ pc' = "vec"
    /\ UNCHANGED << progVars, physical_device_list, physycal_device, queue_family_indices,
                    swapVars >>

NextQueue == GetQueueFamilies \/ IntoVec

SpecQueue == InitQueue /\ [][NextQueue]_vars

\* ------------------------------------------------------------------ claims on SpecQueue

GraphicsAt(device) ==
    { i \in 1..Len(device.queue_families) : device.queue_families[i].supports_graphics }
PresentationAt(device) ==
    { i \in 1..Len(device.queue_families) : device.queue_families[i].is_supported = "Ok(true)" }
\* the family at the least position of a set of positions, None for the empty set
FirstOf(positions) ==
    IF positions = {} THEN None
    ELSE Some(QueueFamily((CHOOSE i \in positions : \A j \in positions : i <= j) - 1))

\* C7: get_queue_families sets graphics_family to the first family that supports
\* graphics and presentation_family to the first family that supports
\* presentation (a failed query counting as unsupported), each None when no
\* family does, independently; the result is valid exactly when both exist.
C7_FirstOfEach ==
    pc = "resolved" =>
        /\ queue_family_indices.graphics_family = FirstOf(GraphicsAt(physical_device_list[1]))
        /\ queue_family_indices.presentation_family =
               FirstOf(PresentationAt(physical_device_list[1]))
        /\ is_valid(queue_family_indices) <=>
               /\ GraphicsAt(physical_device_list[1]) # {}
               /\ PresentationAt(physical_device_list[1]) # {}

C7_Witness ==
    /\ pc = "resolved"
    /\ Len(physical_device_list[1].queue_families) = 3
    /\ physical_device_list[1].queue_families[1].is_supported = "Err"
    /\ queue_family_indices.graphics_family = Some(QueueFamily(1))
    /\ queue_family_indices.presentation_family = Some(QueueFamily(2))

\* C8 as stated: in every QueueFamilyIndices the program produces,
\* graphics_family is present if and only if presentation_family is.
C8_Together ==
    is_some(queue_family_indices.graphics_family)
        <=> is_some(queue_family_indices.presentation_family)

\* the device has a family of both kinds or of neither: some family supports
\* graphics exactly when some family is reported to support presentation
BothKindsOrNeither(device) ==
    (GraphicsAt(device) # {}) <=> (PresentationAt(device) # {})

\* C8 amended: graphics_family is present if and only if presentation_family is
\* in the value new produces (both absent) and in the value get_queue_families
\* produces for every device that has a graphics family exactly when it has a
\* family reported to support presentation (both present, or both absent); on
\* a device with a family of one kind only, one field is populated alone.
C8_TogetherWhenSuitable ==
    (pc = "new" \/ BothKindsOrNeither(physical_device_list[1])) =>
        (is_some(queue_family_indices.graphics_family)
            <=> is_some(queue_family_indices.presentation_family))

\* get_queue_families has run on a device with families of neither kind, one of
\* whose support queries failed, and has left both fields empty
C8_Witness ==
    /\ pc = "resolved"
    /\ BothKindsOrNeither(physical_device_list[1])
    /\ Len(physical_device_list[1].queue_families) >= 2
    /\ \E i \in 1..Len(physical_device_list[1].queue_families) :
           physical_device_list[1].queue_families[i].is_supported = "Err"
    /\ is_none(queue_family_indices.graphics_family)
    /\ is_none(queue_family_indices.presentation_family)

\* C9: into_vec returns the empty list when either family is absent, [graphics]
\* when both are present with the same id, [graphics, presentation] when the
\* ids differ; no two entries of the list have the same id.
C9_IntoVec ==
    pc = "vec" =>
        LET g == queue_family_indices.graphics_family
            p == queue_family_indices.presentation_family
        IN  /\ (is_none(g) \/ is_none(p)) => families = << >>
            /\ (is_some(g) /\ is_some(p) /\ unwrap(g).id = unwrap(p).id)
                   => families = << unwrap(g) >>
            /\ (is_some(g) /\ is_some(p) /\ unwrap(g).id # unwrap(p).id)
                   => families = << unwrap(g), unwrap(p) >>
            /\ \A i, j \in 1..Len(families) : i # j => families[i].id # families[j].id

C9_Witness ==
    /\ pc = "vec"
    /\ is_some(queue_family_indices.graphics_family)
    /\ queue_family_indices.graphics_family = queue_family_indices.presentation_family
    /\ Len(families) = 1

\* ------------------------------------------------------------------ SpecDevice
\* get_physical_device on every list of at most MaxDevices devices, each with
\* at most two queue families, and create_logical_device on the device chosen.

SampleDevices ==
    [queue_families :
         SeqUpTo([supports_graphics : BOOLEAN, is_supported : { "Ok(true)", "Ok(false)" }], 2),
     supported_extensions : SUBSET DeviceExtensionNames]

DeviceCreationErrors == { "InitializationFailed", "TooManyQueuesForFamily" }

InitDevice ==
    /\ pc = "get_physical_device"
    /\ ProgIdle
    /\ physical_device_list \in SeqUpTo(SampleDevices, MaxDevices)
    /\ physycal_device = None
    /\ queue_family_indices = QueueFamilyIndices_new
    /\ families = << >>
    /\ surface_capabilities = DefaultCapabilities
    /\ SwapIdle

SelectPhysicalDevice ==
    /\ pc = "get_physical_device"
    /\ LET found == get_physical_device(physical_device_list)
       IN  IF is_ok(found)
           THEN /\ physycal_device' = Some(found.value)
                /\ result' = result
                /\ pc' = "create_logical_device"
           ELSE /\ physycal_device' = None
                /\ result' = Some(found)
                /\ pc' = "init_returned"
    /\ UNCHANGED << loopVars, debug_assertions, ran, debug_callback, exit_code, stderr,
                    physical_device_list,
                    queue_family_indices, families, swapVars >>

OpenLogicalDevice ==
    /\ pc = "create_logical_device"
    /\ queue_family_indices' =
           get_queue_families(physical_device_list[unwrap(physycal_device) + 1])
    /\ families' = into_vec(queue_family_indices')
    /\ \E device_new \in { Ok("Device") } \cup { Err(e) : e \in DeviceCreationErrors } :
          IF is_ok(device_new)
          THEN /\ result' = result
               /\ pc' = "create_swapchain"
          ELSE /\ result' = Some(Err(EngineError("VulkanDeviceCreationError", device_new.value)))
               /\ pc' = "init_returned"
    /\ UNCHANGED << loopVars, debug_assertions, ran, debug_callback, exit_code, stderr,
                    physical_device_list,
                    physycal_device, swapVars >>

NextDevice == SelectPhysicalDevice \/ OpenLogicalDevice

SpecDevice == InitDevice /\ [][NextDevice]_vars

\* ------------------------------------------------------------------ claims on SpecDevice

\* a device qualifies: a graphics-capable family and a presentation-capable
\* family exist, and swap-chain support is among its extensions
Qualifies(device) ==
    /\ \E i \in 1..Len(device.queue_families) : device.queue_families[i].supports_graphics
    /\ \E i \in 1..Len(device.queue_families) : device.queue_families[i].is_supported = "Ok(true)"
    /\ "khr_swapchain" \in device.supported_extensions
QualifyingAt(list) == { i \in 1..Len(list) : Qualifies(list[i]) }

\* C2: get_physical_device returns the first device of the list that qualifies,
\* no earlier device qualifying, and fails with "No valid physical device
\* available" exactly when no device of the list qualifies.
C2_FirstQualifying ==
    pc # "get_physical_device" =>
        /\ is_some(physycal_device) =>
               /\ unwrap(physycal_device) + 1 \in QualifyingAt(physical_device_list)
               /\ \A j \in QualifyingAt(physical_device_list) : unwrap(physycal_device) + 1 <= j
        /\ QualifyingAt(physical_device_list) = {} <=>
               /\ is_none(physycal_device)
               /\ result = Some(Err(VulkanValidationError("No valid physical device available")))

C2_Witness ==
    /\ pc = "create_logical_device"
    /\ physycal_device = Some(1)
    /\ is_valid(get_queue_families(physical_device_list[1]))
    /\ "khr_swapchain" \notin physical_device_list[1].supported_extensions

\* ------------------------------------------------------------------ instance creation

VALIDATION_LAYERS == { "VK_LAYER_KHRONOS_validation" }

ENABLE_VALIDATION_LAYERS == debug_assertions

InstanceExtensionNames == { "khr_surface", "khr_win32_surface", "ext_debug_utils" }
\* what the window library would like of the instance
IdealWindowExtensions == { "khr_surface", "khr_win32_surface" }

\* layers_list(): the layers available, or an error
LayersListResults ==
    { Ok(layers) : layers \in SUBSET VALIDATION_LAYERS } \cup { Err("LoadingError") }
\* InstanceExtensions::supported_by_core(): the extensions available, or an error
SupportedByCoreResults ==
    { Ok(extensions) : extensions \in SUBSET InstanceExtensionNames } \cup { Err("LoadingError") }
\* Instance::new
InstanceNewResults == { Ok("Instance"), Err("IncompatibleDriver"), Err("ExtensionNotPresent") }

check_validation_layer_support(layers_list) ==
    IF is_err(layers_list) THEN Panic("called Result::unwrap() on an Err value")
    ELSE Return(\A layer_name \in VALIDATION_LAYERS : layer_name \in layers_list.value)

\* vulkano_win::required_extensions() is the intersection of what the window
\* library would like and supported_by_core; then ext_debug_utils is asked for
\* where validation layers are enabled
get_required_instance_extensions(supported_by_core) ==
    LET extensions ==
            IF is_ok(supported_by_core)
            THEN IdealWindowExtensions \cap supported_by_core.value
            ELSE {}
    IN  IF ENABLE_VALIDATION_LAYERS THEN extensions \cup { "ext_debug_utils" } ELSE extensions

check_instance_extension_support(extensions, supported_by_core) ==
    IF is_err(supported_by_core)
    THEN Panic("Could not get core instance extensions from Vulkan")
    ELSE Return((supported_by_core.value \cap extensions) = extensions)

create_instance(layers_list, supported_by_core, instance_new) ==
    IF ENABLE_VALIDATION_LAYERS /\ check_validation_layer_support(layers_list).kind = "panic"
    THEN check_validation_layer_support(layers_list)
    ELSE LET extensions == get_required_instance_extensions(supported_by_core)
             supported == check_instance_extension_support(extensions, supported_by_core)
         IN  IF supported.kind = "panic" THEN supported
             ELSE IF ~supported.value
             THEN Return(Err(VulkanValidationError(
                      "Expected more instance extensions than available")))
             ELSE IF is_err(instance_new)
             THEN Return(Err(EngineError("VulkanInstanceCreationError", instance_new.value)))
             ELSE Return(Ok(instance_new.value))

\* DebugCallback::new(..).ok(), and None without asking where layers are disabled
setup_debug_callback(callback_new) ==
    IF ~ENABLE_VALIDATION_LAYERS THEN None
    ELSE IF is_ok(callback_new) THEN Some(callback_new.value) ELSE None

\* ------------------------------------------------------------------ create_swapchain

\* What create_swapchain computes from the capabilities before it calls
\* Swapchain::new, in the order of the code; a panic ends the computation and
\* leaves the rest uncomputed.
negotiate(capabilities, window_size, queues, overflow_checks) ==
    LET format == choose_best_surface_format(capabilities.supported_formats)
        count == choose_image_count(capabilities.min_image_count,
                                    capabilities.max_image_count, overflow_checks)
        first_alpha == first_composite_alpha(capabilities.supported_composite_alpha, 1)
        got_format == format.kind = "return"
        got_count == got_format /\ count.kind = "return"
        got_alpha == got_count /\ is_some(first_alpha)
    IN  [surface_format |-> IF got_format THEN Some(format.value) ELSE None,
         presentation_mode |->
             IF got_format
             THEN Some(choose_best_presentation_mode(capabilities.present_modes))
             ELSE None,
         image_count |-> IF got_count THEN Some(count.value) ELSE None,
         alpha |-> IF got_count THEN first_alpha ELSE None,
         dimensions |->
             IF got_alpha
             THEN Some(<< clamp_dimension(capabilities.min_image_extent[1],
                                          capabilities.max_image_extent[1], window_size[1]),
                          clamp_dimension(capabilities.min_image_extent[2],
                                          capabilities.max_image_extent[2], window_size[2]) >>)
             ELSE None,
         sharing_mode |-> IF got_alpha THEN Some(choose_sharing_mode(queues)) ELSE None]

\* the first panic of that computation, None when it has none
negotiate_panic(capabilities, overflow_checks) ==
    LET format == choose_best_surface_format(capabilities.supported_formats)
        count == choose_image_count(capabilities.min_image_count,
                                    capabilities.max_image_count, overflow_checks)
    IN  IF format.kind = "panic" THEN Some(format)
        ELSE IF count.kind = "panic" THEN Some(count)
        ELSE IF is_none(first_composite_alpha(capabilities.supported_composite_alpha, 1))
        THEN Some(Panic("called Option::unwrap() on a None value"))
        ELSE None

create_swapchain(capabilities, window_size, queues, swapchain_new, overflow_checks) ==
    IF is_err(capabilities)
    THEN Return(Err(EngineError("VulkanCapabilitiesError", capabilities.value)))
    ELSE IF is_some(negotiate_panic(capabilities.value, overflow_checks))
    THEN unwrap(negotiate_panic(capabilities.value, overflow_checks))
    ELSE IF is_err(swapchain_new)
    THEN Return(Err(EngineError("VulkanSwapchainCreationError", swapchain_new.value)))
    ELSE Return(Ok(swapchain_new.value))

\* ------------------------------------------------------------------ create_graphic_pipeline

ApiResults(value) == { Ok(value), Err("OutOfDeviceMemory") }

create_graphic_pipeline(vertex_buffer, vertex_shader, fragment_shader, render_pass, pipeline) ==
    IF is_err(vertex_buffer) THEN Panic("called Result::unwrap() on an Err value")
    ELSE IF is_err(vertex_shader)
    THEN Return(Err(EngineError("VulkanOomError", vertex_shader.value)))
    ELSE IF is_err(fragment_shader)
    THEN Return(Err(EngineError("VulkanOomError", fragment_shader.value)))
    ELSE IF is_err(render_pass) THEN Panic("called Result::unwrap() on an Err value")
    ELSE IF is_err(pipeline) THEN Panic("called Result::unwrap() on an Err value")
    ELSE Return(Ok("()"))

\* ------------------------------------------------------------------ init and main

\* the calls of VulkanRenderer::init, in the order of the code
InitOrder ==
    << "create_instance", "setup_debug_callback", "create_surface", "get_physical_device",
       "create_logical_device", "create_swapchain", "create_graphic_pipeline" >>

position(step) == CHOOSE i \in 1..Len(InitOrder) : InitOrder[i] = step

\* the statement after a call of init that succeeded; after the last, init returns
next_step(step) ==
    IF position(step) < Len(InitOrder) THEN InitOrder[position(step) + 1]
    ELSE "init_returned"

after_step_mutant(step, outcome) ==
    IF outcome.kind = "panic" THEN "panicked" ELSE next_step(step)

\* where the program is after a call of init: a panic unwinds out of main, the
\* question mark returns an Err from init, anything else goes on
after_step(step, outcome) ==
    IF outcome.kind = "panic" THEN "panicked"
    ELSE IF is_err(outcome.value) THEN "init_returned"
    ELSE next_step(step)

\* One call of init, given its outcome.
Step(step, outcome) ==
    /\ pc = step
    /\ ran' = Append(ran, step)
    /\ pc' = after_step(step, outcome)
    /\ result' = IF outcome.kind = "panic" THEN result
                 ELSE IF is_err(outcome.value) THEN Some(outcome.value)
                 ELSE IF next_step(step) = "init_returned" THEN Some(Ok("VulkanRenderer"))
                 ELSE result
    /\ exit_code' = IF outcome.kind = "panic" THEN Some(101) ELSE exit_code
    /\ UNCHANGED << loopVars, debug_assertions, stderr >>

\* The devices and the surfaces the program is run on.
ProgramDevices ==
    { [queue_families |-> << >>, supported_extensions |-> { "khr_swapchain" }],
      [queue_families |-> << [supports_graphics |-> TRUE, is_supported |-> "Ok(true)"] >>,
       supported_extensions |-> { "khr_swapchain", "khr_maintenance1" }],
      [queue_families |-> << [supports_graphics |-> TRUE, is_supported |-> "Err"],
                             [supports_graphics |-> FALSE, is_supported |-> "Ok(true)"] >>,
       supported_extensions |-> { "khr_swapchain" }] }

ProgramCapabilities ==
    { DefaultCapabilities,
      [DefaultCapabilities EXCEPT !.supported_formats = << >>],
      [DefaultCapabilities EXCEPT
          !.supported_formats = << << "R16G16B16A16Sfloat", "ExtendedSrgbLinear" >>,
                                   << "R8G8B8A8Unorm", "SrgbNonLinear" >> >>,
          !.present_modes.mailbox = TRUE,
          !.max_image_count = Some(u32(2))],
      [DefaultCapabilities EXCEPT !.supported_composite_alpha = { }],
      [DefaultCapabilities EXCEPT !.supported_composite_alpha = { "PreMultiplied", "Inherit" },
                                  !.min_image_extent = << 2, 1 >>],
      [DefaultCapabilities EXCEPT !.min_image_count = u32_MAX,
                                  !.max_image_count = Some(u32_MAX)] }

WindowSizes == { << 0, 0 >>, << 1, 2 >>, << MaxExtent + 1, 1 >> }

Init ==
    /\ pc = "main"
    /\ debug_assertions \in BOOLEAN
    /\ ran = << >>
    /\ debug_callback = None
    /\ result = None
    /\ exit_code = None
    /\ stderr = << >>
    /\ control_flow = "Poll"
    /\ stdout = << >>
    /\ DeviceIdle
    /\ surface_capabilities = DefaultCapabilities
    /\ SwapIdle

CreateInstance ==
    /\ pc = "create_instance"
    /\ \E layers_list \in LayersListResults, supported_by_core \in SupportedByCoreResults,
          instance_new \in InstanceNewResults :
          Step("create_instance", create_instance(layers_list, supported_by_core, instance_new))
    /\ UNCHANGED << debug_callback, deviceVars, swapVars >>

SetupDebugCallback ==
    /\ pc = "setup_debug_callback"
    /\ \E callback_new \in { Ok("DebugCallback"), Err("MissingExtension") } :
          /\ debug_callback' = setup_debug_callback(callback_new)
          /\ Step("setup_debug_callback", Return(Ok(debug_callback')))
    /\ UNCHANGED << deviceVars, swapVars >>

CreateSurface ==
    /\ pc = "create_surface"
    /\ \E build_vk_surface \in { Ok("Surface"), Err("OsError") } :
          Step("create_surface",
               IF is_ok(build_vk_surface) THEN Return(build_vk_surface)
               ELSE Return(Err(EngineError("VulkanCreationError", build_vk_surface.value))))
    /\ UNCHANGED << debug_callback, deviceVars, swapVars >>

GetPhysicalDevice ==
    /\ pc = "get_physical_device"
    /\ \E list \in SeqUpTo(ProgramDevices, MaxDevices) :
          /\ physical_device_list' = list
          /\ physycal_device' =
                 IF is_ok(get_physical_device(list))
                 THEN Some(get_physical_device(list).value) ELSE None
          /\ Step("get_physical_device", Return(get_physical_device(list)))
    /\ UNCHANGED << debug_callback, queue_family_indices, families, swapVars >>

CreateLogicalDevice ==
    /\ pc = "create_logical_device"
    /\ queue_family_indices' =
           get_queue_families(physical_device_list[unwrap(physycal_device) + 1])
    /\ families' = into_vec(queue_family_indices')
    /\ \E device_new \in { Ok("Device") } \cup { Err(e) : e \in DeviceCreationErrors } :
          Step("create_logical_device",
               IF is_ok(device_new) THEN Return(device_new)
               ELSE Return(Err(EngineError("VulkanDeviceCreationError", device_new.value))))
    /\ UNCHANGED << debug_callback, physical_device_list, physycal_device, swapVars >>

CreateSwapchain ==
    /\ pc = "create_swapchain"
    /\ \E capabilities \in { Ok(c) : c \in ProgramCapabilities } \cup { Err("SurfaceLost") },
          window_size \in WindowSizes,
          swapchain_new \in { Ok("Swapchain"), Err("UnsupportedDimensions") } :
          LET args == negotiate(capabilities.value, window_size, device_queues(families),
                                debug_assertions)
          IN  /\ Step("create_swapchain",
                      create_swapchain(capabilities, window_size, device_queues(families),
                                       swapchain_new, debug_assertions))
              /\ inner_size' = window_size
              /\ IF is_ok(capabilities)
                 THEN /\ surface_capabilities' = capabilities.value
                      /\ surface_format' = args.surface_format
                      /\ presentation_mode' = args.presentation_mode
                      /\ image_count' = args.image_count
                      /\ alpha' = args.alpha
                      /\ dimensions' = args.dimensions
                      /\ sharing_mode' = args.sharing_mode
                 ELSE UNCHANGED << surface_capabilities, surface_format, presentation_mode,
                                   image_count, alpha, dimensions, sharing_mode >>
    /\ UNCHANGED << debug_callback, deviceVars >>

CreateGraphicPipeline ==
    /\ pc = "create_graphic_pipeline"
    /\ \E vertex_buffer \in ApiResults("CpuAccessibleBuffer"),
          vertex_shader \in ApiResults("Shader"),
          fragment_shader \in ApiResults("Shader"),
          render_pass \in ApiResults("RenderPass"),
          pipeline \in ApiResults("GraphicsPipeline") :
          Step("create_graphic_pipeline",
               create_graphic_pipeline(vertex_buffer, vertex_shader, fragment_shader,
                                       render_pass, pipeline))
    /\ UNCHANGED << debug_callback, deviceVars, swapVars >>

\* main.rs and vulkan_renderer.rs are of two snapshots: main creates an instance
\* and a window itself before it calls init, and init creates its own.  Each
\* file is followed as it is written.

\* the first match of main: VulkanRenderer::create_instance(), whose error is
\* printed before the process exits with code 1
MainCreateInstance ==
    /\ pc = "main"
    /\ \E layers_list \in LayersListResults, supported_by_core \in SupportedByCoreResults,
          instance_new \in InstanceNewResults :
          LET outcome == create_instance(layers_list, supported_by_core, instance_new)
          IN  IF outcome.kind = "panic"
              THEN /\ pc' = "panicked"
                   /\ exit_code' = Some(101)
                   /\ stderr' = stderr
              ELSE IF is_err(outcome.value)
              THEN /\ pc' = "exited"
                   /\ exit_code' = Some(1)
                   /\ stderr' = Append(stderr, << "Failed to create instance: {}",
                                                   outcome.value.value >>)
              ELSE /\ pc' = "init_window"
                   /\ UNCHANGED << exit_code, stderr >>
    /\ UNCHANGED << loopVars, debug_assertions, ran, debug_callback, result, deviceVars, swapVars >>

\* init_window: build_vk_surface(..).unwrap()
InitWindow ==
    /\ pc = "init_window"
    /\ \E build_vk_surface \in { Ok("Surface"), Err("OsError") } :
          IF is_ok(build_vk_surface)
          THEN /\ pc' = "create_instance"
               /\ exit_code' = exit_code
          ELSE /\ pc' = "panicked"
               /\ exit_code' = Some(101)
    /\ UNCHANGED << loopVars, debug_assertions, ran, debug_callback, result, stderr, deviceVars,
                    swapVars >>

\* the second match of main, on what init returned: the renderer goes to the
\* event loop, an error is printed and the process exits with code 1
MainMatch ==
    /\ pc = "init_returned"
    /\ IF is_ok(unwrap(result))
       THEN /\ pc' = "event_loop"
            /\ UNCHANGED << stderr, exit_code >>
       ELSE /\ stderr' = Append(stderr, << "Failed to create vulkano renderer: {}",
                                           unwrap(result).value >>)
            /\ exit_code' = Some(1)
            /\ pc' = "exited"
    /\ UNCHANGED << loopVars, debug_assertions, ran, debug_callback, result, deviceVars, swapVars >>

\* the events run() hands to the closure while the loop runs
WindowEvents == { "CloseRequested", "Resized", "RedrawRequested" }

\* the closure of events_loop.run, called on one event, up to its return to
\* run(): CloseRequested writes ControlFlow::Exit and prints, any other event
\* does nothing.  Once the closure has returned with ControlFlow::Exit, run()
\* calls it one last time, on LoopDestroyed, which takes the arm of the other
\* events.
EventLoop ==
    /\ pc = "event_loop"
    /\ \E event \in IF control_flow = "Exit" THEN { "LoopDestroyed" } ELSE WindowEvents :
          /\ IF event = "CloseRequested"
             THEN /\ control_flow' = "Exit"
                  /\ stdout' = Append(stdout, "The close button was pressed; stopping")
             ELSE UNCHANGED << control_flow, stdout >>
          /\ pc' = IF event = "LoopDestroyed" THEN "loop_destroyed" ELSE pc
    /\ UNCHANGED << debug_assertions, ran, debug_callback, result, exit_code, stderr,
                    deviceVars, swapVars >>

\* events_loop.run, after the closure has returned from LoopDestroyed: run()
\* never returns, it ends the process with exit code 0
RunExit ==
    /\ pc = "loop_destroyed"
    /\ pc' = "exited"
    /\ exit_code' = Some(0)
    /\ UNCHANGED << loopVars, debug_assertions, ran, debug_callback, result, stderr,
                    deviceVars, swapVars >>

Next ==
    \/ MainCreateInstance
    \/ InitWindow
    \/ CreateInstance
    \/ SetupDebugCallback
    \/ CreateSurface
    \/ GetPhysicalDevice
    \/ CreateLogicalDevice
    \/ CreateSwapchain
    \/ CreateGraphicPipeline
    \/ MainMatch
    \/ EventLoop
    \/ RunExit

Spec == Init /\ [][Next]_vars

\* ------------------------------------------------------------------ claims on Spec

InitSucceeded == is_some(result) /\ is_ok(unwrap(result))
InitFailed == pc = "panicked" \/ (is_some(result) /\ is_err(unwrap(result)))
ProcessEnded == pc \in { "exited", "panicked" }

\* C4: every failure of an initialization step reaches the top level as an
\* EngineError, which main prints before it exits with code 1; the process ends
\* in no other way after a failure, and no failure reaches the event loop.
C4_FailuresExitOne ==
    /\ (ProcessEnded /\ ~InitSucceeded) =>
           /\ Len(stderr) = 1
           /\ exit_code = Some(1)
    /\ pc \in { "event_loop", "loop_destroyed" } => InitSucceeded

\* the six steps the claim names, in its order
ClaimOrder ==
    << "create_instance", "create_surface", "get_physical_device", "create_logical_device",
       "create_swapchain", "create_graphic_pipeline" >>
InClaimOrder(step) == \E i \in 1..Len(ClaimOrder) : ClaimOrder[i] = step
IsPrefix(s, t) == Len(s) <= Len(t) /\ \A i \in 1..Len(s) : s[i] = t[i]

\* C10: init runs instance creation, surface creation, physical-device
\* selection, logical-device creation, swap-chain creation and pipeline
\* assembly in that order, each at most once and only after the earlier ones;
\* once a step has failed no step runs any more.
C10_LinearPipeline ==
    /\ [](IsPrefix(SelectSeq(ran, InClaimOrder), ClaimOrder))
    /\ [][InitFailed => ran' = ran]_vars

C10_Witness ==
    /\ InitFailed
    /\ pc = "exited"
    /\ SelectSeq(ran, InClaimOrder) =
           << "create_instance", "create_surface", "get_physical_device",
              "create_logical_device" >>

\* C11: create_swapchain asks for exclusive sharing exactly when the graphics
\* and the presentation family of the device are the same family; when they
\* differ it asks for concurrent sharing over the list of exactly these two
\* family ids, without a duplicate.
C11_SharingByFamily ==
    is_some(sharing_mode) =>
        LET graphics == unwrap(queue_family_indices.graphics_family).id
            presentation == unwrap(queue_family_indices.presentation_family).id
            asked == unwrap(sharing_mode)
        IN  /\ asked.mode = "Exclusive" <=> graphics = presentation
            /\ graphics # presentation =>
                   /\ asked.mode = "Concurrent"
                   /\ Len(asked.queues) = 2
                   /\ { asked.queues[i] : i \in 1..Len(asked.queues) } = { graphics, presentation }
                   /\ asked.queues[1] # asked.queues[2]

\* ------------------------------------------------------------------ SpecExtent
\* The extent of create_swapchain on every window size up to MaxExtent + 1 and
\* every pair of extents up to MaxExtent, inverted ranges included.

Extents == (0..MaxExtent) \X (0..MaxExtent)

InitExtent ==
    /\ pc = "dimensions"
    /\ ProgIdle
    /\ DeviceIdle
    /\ inner_size \in (0..(MaxExtent + 1)) \X (0..(MaxExtent + 1))
    /\ \E min \in Extents, max \in Extents :
          surface_capabilities =
              [DefaultCapabilities EXCEPT !.min_image_extent = min, !.max_image_extent = max]
    /\ surface_format = None
    /\ presentation_mode = None
    /\ image_count = None
    /\ alpha = None
    /\ sharing_mode = None
    /\ dimensions = None

ChooseDimensions ==
    /\ pc = "dimensions"
    /\ dimensions' =
           Some(<< clamp_dimension(surface_capabilities.min_image_extent[1],
                                   surface_capabilities.max_image_extent[1], inner_size[1]),
                   clamp_dimension(surface_capabilities.min_image_extent[2],
                                   surface_capabilities.max_image_extent[2], inner_size[2]) >>)
    /\ pc' = "clamped"
    /\ UNCHANGED << progVars, deviceVars, surface_capabilities, inner_size, surface_format,
                    presentation_mode, image_count, alpha, sharing_mode >>

NextExtent == ChooseDimensions

SpecExtent == InitExtent /\ [][NextExtent]_vars

\* ------------------------------------------------------------------ claims on SpecExtent

Least(S) == CHOOSE x \in S : \A y \in S : x <= y
Greatest(S) == CHOOSE x \in S : \A y \in S : y <= x

\* C12: each dimension of the extent is max(min_image_extent, min(max_image_extent,
\* window size)); where min_image_extent <= max_image_extent in that dimension
\* the result lies between the two and is the window size when that does.
C12_ClampedExtent ==
    pc = "clamped" =>
        \A d \in 1..2 :
            LET min == surface_capabilities.min_image_extent[d]
                max == surface_capabilities.max_image_extent[d]
                window == inner_size[d]
                extent == unwrap(dimensions)[d]
            IN  /\ extent = Greatest({ min, Least({ max, window }) })
                /\ min <= max =>
                       /\ min <= extent
                       /\ extent <= max
                       /\ (min <= window /\ window <= max) => extent = window

C12_Witness ==
    /\ pc = "clamped"
    /\ inner_size[1] > surface_capabilities.max_image_extent[1]
    /\ surface_capabilities.min_image_extent[1] < surface_capabilities.max_image_extent[1]
    /\ unwrap(dimensions)[1] = surface_capabilities.max_image_extent[1]
    /\ inner_size[2] < surface_capabilities.min_image_extent[2]
    /\ surface_capabilities.min_image_extent[2] < surface_capabilities.max_image_extent[2]
    /\ unwrap(dimensions)[2] = surface_capabilities.min_image_extent[2]

====
